---- MODULE Spec2Model ----
(***************************************************************************)
(* Smart Waste Route Planner: the client portal (bin submission against a  *)
(* truck capacity), the driver portal (route planning through the         *)
(* directions service) and the localStorage record "fullBins" they share.  *)
(*                                                                         *)
(* Numbers: weights are whole kilograms and coordinates are points of an   *)
(* integer grid (degrees * 10^4); the texts typed into the amount field    *)
(* carry no fraction part.  Text is a sequence of one-character strings.   *)
(* A JavaScript null is the empty sequence <<>>, a present value x is      *)
(* <<x>>.                                                                  *)
(***************************************************************************)
EXTENDS Integers, Sequences, FiniteSets, TLC

VARIABLES
    localStorage,       \* the value under the key "fullBins": <<>> or <<json text>>
    client,             \* client portal instances: instance id -> component state
    driver,             \* the driver portal's component state
    directionsService,  \* routing requests whose callback has not run yet
    geocoder,           \* reverse-geocoding requests that have not settled yet
    now,                \* the wall clock read by new Date()
    event               \* the event dispatched last: who handled it, and what

vars == <<localStorage, client, driver, directionsService, geocoder, now, event>>

-----------------------------------------------------------------------------
(* Bounds of the model *)

MaxBins == 3        \* longest bin list a submission may still extend
MaxInFlight == 2    \* most routing requests outstanding when planRoute is called directly
MaxClock == 2       \* last clock reading

(* Program constants *)

MAX_TRUCK_CAPACITY == 100

DEFAULT_CENTER == [lat |-> 69021, lng |-> 798608]

-----------------------------------------------------------------------------
(* Inputs *)

Clients == {"c1", "c2"}

PinA == [lat |-> 69271, lng |-> 798612]
PinB == [lat |-> 69000, lng |-> 798500]
Pins == {PinA, PinB}

\* what a user may leave in the amount field
AmountTexts ==
    { <<>>, <<"k", "g">>, <<"0">>, <<"-", "5">>,
      <<"1", "0">>, <<"1", "5">>, <<"4", "0">>, <<"6", "0">>, <<"1", "0", "0">> }

SmallAmountTexts == { <<"4", "0">>, <<"6", "0">> }

FormAmountTexts == { <<"0">>, <<"4", "0">>, <<"6", "0">> }

-----------------------------------------------------------------------------
(* Numbers and text *)

Digits == <<"0", "1", "2", "3", "4", "5", "6", "7", "8", "9">>

IsDigit(ch) == \E d \in 1..Len(Digits) : Digits[d] = ch

DigitValue(ch) == (CHOOSE d \in 1..Len(Digits) : Digits[d] = ch) - 1

RECURSIVE DigitsValue(_)
DigitsValue(s) ==
    IF Len(s) = 0 THEN 0
    ELSE 10 * DigitsValue(SubSeq(s, 1, Len(s) - 1)) + DigitValue(s[Len(s)])

RECURSIVE NumberToString(_)
NumberToString(n) ==
    IF n < 0 THEN <<"-">> \o NumberToString(0 - n)
    ELSE IF n < 10 THEN <<Digits[n + 1]>>
    ELSE Append(NumberToString(n \div 10), Digits[(n % 10) + 1])

LeadingDigits(s) ==
    CHOOSE k \in 0..Len(s) :
        /\ \A i \in 1..k : IsDigit(s[i])
        /\ (k = Len(s) \/ ~IsDigit(s[k + 1]))

NaN == [nan |-> TRUE, val |-> 0]

\* parseFloat: an optional sign, then the longest run of digits; NaN without one
ParseFloat(text) ==
    LET signed == Len(text) > 0 /\ text[1] \in {"-", "+"}
        body   == IF signed THEN Tail(text) ELSE text
        k      == LeadingDigits(body)
        mag    == DigitsValue(SubSeq(body, 1, k))
    IN  IF k = 0 THEN NaN
        ELSE [nan |-> FALSE, val |-> IF signed /\ text[1] = "-" THEN 0 - mag ELSE mag]

\* new Date().toISOString(): the clock reading as text
ToISOString(t) == NumberToString(t)

-----------------------------------------------------------------------------
(* JSON *)

StringifyBin(b) ==
    [id |-> b.id, location |-> b.location, amount |-> NumberToString(b.amount),
     lat |-> NumberToString(b.lat), lng |-> NumberToString(b.lng),
     createdAt |-> b.createdAt]

\* JSON.stringify writing the array back to front
JSONStringifyReversed(bins) ==
    [kind |-> "array",
     items |-> [i \in 1..Len(bins) |-> StringifyBin(bins[Len(bins) + 1 - i])]]

\* JSON.stringify given the new record alone, not the updated list
JSONStringifyLastOnly(bins) ==
    [kind |-> "array",
     items |-> [i \in 1..(IF Len(bins) = 0 THEN 0 ELSE 1) |->
                  StringifyBin(bins[Len(bins)])]]

JSONStringify(bins) ==
    [kind |-> "array", items |-> [i \in 1..Len(bins) |-> StringifyBin(bins[i])]]

ParseBin(j) ==
    [id |-> j.id, location |-> j.location, amount |-> ParseFloat(j.amount).val,
     lat |-> ParseFloat(j.lat).val, lng |-> ParseFloat(j.lng).val,
     createdAt |-> j.createdAt]

\* text that is no JSON, and JSON text of an object that is no array
InvalidJSON == [kind |-> "invalid", items |-> <<>>]

ObjectJSON == [kind |-> "object", items |-> <<>>]

\* JSON.parse: it threw, or returned a value that is an array or is none
JSONParse(text) ==
    IF text.kind = "array"
    THEN [threw |-> FALSE, array |-> TRUE,
          value |-> [i \in 1..Len(text.items) |-> ParseBin(text.items[i])]]
    ELSE IF text.kind = "object"
    THEN [threw |-> FALSE, array |-> FALSE, value |-> <<>>]
    ELSE [threw |-> TRUE, array |-> FALSE, value |-> <<>>]

-----------------------------------------------------------------------------
(* Notifications *)

NoNotification == [type |-> "none", message |-> "", arg |-> 0]

Notify(type, message) == [type |-> type, message |-> message, arg |-> 0]

NotifyWith(type, message, arg) == [type |-> type, message |-> message, arg |-> arg]

NoDriverNotification == [type |-> "none", message |-> "", arg |-> ""]

DriverNotify(type, message, status) ==
    [type |-> type, message |-> message, arg |-> status]

-----------------------------------------------------------------------------
(* Client portal.  Its handlers are taken as callable in every state of the  *)
(* mounted component: the disabled and required attributes of the form only  *)
(* keep the browser from calling them in some states.                        *)

FetchingAddress == <<"Fetching address...">>

AddressNotFound == <<"Address not found">>

\* results.results[0].formatted_address for the coordinate asked about
FormattedAddress(p) == <<"address of", p.lat, p.lng>>

PinnedPlaceholder(p) == <<"Pinned", p.lat, p.lng>>

\* the component's state as useState initialises it
InitialClient ==
    [mounted |-> FALSE, amount |-> <<>>, bins |-> <<>>, latLng |-> <<>>,
     location |-> <<>>, notification |-> NoNotification, isSubmitting |-> FALSE,
     crashed |-> FALSE]

RECURSIVE TotalAmount(_)
TotalAmount(bins) ==
    IF Len(bins) = 0 THEN 0
    ELSE TotalAmount(SubSeq(bins, 1, Len(bins) - 1)) + bins[Len(bins)].amount

\* remainingCapacity taken from the truck alone, whatever the list holds
RemainingCapacityIgnoresBins(bins) ==
    LET left == MAX_TRUCK_CAPACITY
    IN  IF left > 0 THEN left ELSE 0

RemainingCapacity(bins) ==
    LET left == MAX_TRUCK_CAPACITY - TotalAmount(bins)
    IN  IF left > 0 THEN left ELSE 0

\* the load effect, run once when the component mounts (also a page reload)
ClientMount(c) ==
    /\ client' =
         [client EXCEPT ![c] =
            IF localStorage = <<>>
            THEN [InitialClient EXCEPT !.mounted = TRUE]
            ELSE LET parsed == JSONParse(localStorage[1])
                 IN  IF parsed.threw
                     THEN [InitialClient EXCEPT
                             !.mounted = TRUE,
                             !.notification =
                                Notify("error", "Could not load previously submitted bins.")]
                     ELSE IF ~parsed.array
                     \* setBins(value), and bins.reduce throws in the next render:
                     \* React takes the page down
                     THEN [InitialClient EXCEPT !.crashed = TRUE]
                     ELSE [InitialClient EXCEPT
                             !.mounted = TRUE, !.bins = parsed.value]]
    /\ geocoder' = {r \in geocoder : r.client # c}
    /\ event' = [who |-> c, op |-> "load"]
    /\ UNCHANGED <<localStorage, driver, directionsService, now>>

\* the 3 s timer that clears a notification
ClientNotificationTimeout(c) ==
    /\ client[c].mounted
    /\ client[c].notification # NoNotification
    /\ client' = [client EXCEPT ![c].notification = NoNotification]
    /\ event' = [who |-> c, op |-> "notificationTimeout"]
    /\ UNCHANGED <<localStorage, driver, directionsService, geocoder, now>>

\* onChange of the amount field
SetAmount(c, text) ==
    /\ client[c].mounted
    /\ client' = [client EXCEPT ![c].amount = text]
    /\ event' = [who |-> c, op |-> "setAmount"]
    /\ UNCHANGED <<localStorage, driver, directionsService, geocoder, now>>

\* handleMapClick up to its await: the pin is set and the geocoder is asked
HandleMapClick(c, pin) ==
    /\ client[c].mounted
    /\ client' = [client EXCEPT ![c].latLng = <<pin>>, ![c].location = FetchingAddress]
    /\ geocoder' = geocoder \cup {[client |-> c, lat |-> pin.lat, lng |-> pin.lng]}
    /\ event' = [who |-> c, op |-> "handleMapClick"]
    /\ UNCHANGED <<localStorage, driver, directionsService, now>>

\* handleMapClick after its await: found, empty (no result) or error (rejected)
GeocodeSettles(req, outcome) ==
    /\ req \in geocoder
    /\ geocoder' = geocoder \ {req}
    /\ client' =
         [client EXCEPT ![req.client].location =
            CASE outcome = "found" -> FormattedAddress(req)
              [] outcome = "empty" -> AddressNotFound
              [] OTHER -> @]
    /\ event' = [who |-> req.client, op |-> "geocode"]
    /\ UNCHANGED <<localStorage, driver, directionsService, now>>

\* handleSubmit without its capacity check
SubmitOutcomeNoCapacity(amount, latLng, bins) ==
    LET amountNumber == ParseFloat(amount)
    IN  IF amount = <<>> \/ latLng = <<>> THEN "missing"
        ELSE IF amountNumber.nan \/ amountNumber.val <= 0 THEN "notPositive"
        ELSE "ok"

\* handleSubmit checking isNaN only
SubmitOutcomeNoPositive(amount, latLng, bins) ==
    LET amountNumber == ParseFloat(amount)
    IN  IF amount = <<>> \/ latLng = <<>> THEN "missing"
        ELSE IF amountNumber.nan THEN "notPositive"
        ELSE IF amountNumber.val > RemainingCapacity(bins) THEN "exceeds"
        ELSE "ok"

\* handleSubmit comparing with >= where the code has >
SubmitOutcomeOffByOne(amount, latLng, bins) ==
    LET amountNumber == ParseFloat(amount)
    IN  IF amount = <<>> \/ latLng = <<>> THEN "missing"
        ELSE IF amountNumber.nan \/ amountNumber.val <= 0 THEN "notPositive"
        ELSE IF amountNumber.val >= RemainingCapacity(bins) THEN "exceeds"
        ELSE "ok"

\* the branch handleSubmit takes
SubmitOutcome(amount, latLng, bins) ==
    LET amountNumber == ParseFloat(amount)
    IN  IF amount = <<>> \/ latLng = <<>> THEN "missing"
        ELSE IF amountNumber.nan \/ amountNumber.val <= 0 THEN "notPositive"
        ELSE IF amountNumber.val > RemainingCapacity(bins) THEN "exceeds"
        ELSE "ok"

RejectionNotice(outcome, bins) ==
    CASE outcome = "missing" ->
           Notify("error", "Please pin a location and enter the waste amount.")
      [] outcome = "notPositive" ->
           Notify("error", "Please enter a valid positive waste amount.")
      [] OTHER ->
           NotifyWith("error", "Amount exceeds remaining truck capacity",
                      RemainingCapacity(bins))

\* newBin with latitude and longitude exchanged
NewBinSwapsLatLng(s, t) ==
    [id |-> ToISOString(t),
     location |-> IF s.location # <<>> THEN s.location
                  ELSE PinnedPlaceholder(s.latLng[1]),
     amount |-> ParseFloat(s.amount).val,
     lat |-> s.latLng[1].lng,
     lng |-> s.latLng[1].lat,
     createdAt |-> ToISOString(t)]

NewBin(s, t) ==
    [id |-> ToISOString(t),
     location |-> IF s.location # <<>> THEN s.location
                  ELSE PinnedPlaceholder(s.latLng[1]),
     amount |-> ParseFloat(s.amount).val,
     lat |-> s.latLng[1].lat,
     lng |-> s.latLng[1].lng,
     createdAt |-> ToISOString(t)]

\* handleSubmit taking the new record back when localStorage.setItem throws
HandleSubmitRollsBack(c, writeOk) ==
    LET s == client[c]
        outcome == SubmitOutcome(s.amount, s.latLng, s.bins)
    IN  /\ s.mounted
        /\ outcome = "ok" => Len(s.bins) < MaxBins
        /\ IF outcome # "ok"
           THEN /\ client' = [client EXCEPT
                                ![c].notification = RejectionNotice(outcome, s.bins),
                                ![c].isSubmitting = FALSE]
                /\ UNCHANGED localStorage
           ELSE LET updatedBins == Append(s.bins, NewBin(s, now))
                IN  /\ client' = [client EXCEPT
                                    ![c].bins = IF writeOk THEN updatedBins ELSE @,
                                    ![c].notification =
                                       IF writeOk
                                       THEN Notify("success",
                                                   "Bin details submitted successfully!")
                                       ELSE Notify("error",
                                                   "Failed to save bin. Data might be lost on refresh."),
                                    ![c].location = <<>>,
                                    ![c].amount = <<>>,
                                    ![c].latLng = <<>>,
                                    ![c].isSubmitting = FALSE]
                    /\ localStorage' =
                         IF writeOk THEN <<JSONStringify(updatedBins)>>
                         ELSE localStorage
        /\ event' = [who |-> c, op |-> "handleSubmit"]
        /\ UNCHANGED <<driver, directionsService, geocoder, now>>

\* handleSubmit adding its record to what the store holds, not writing its own list
HandleSubmitAppendsToStore(c, writeOk) ==
    LET s == client[c]
        outcome == SubmitOutcome(s.amount, s.latLng, s.bins)
        stored == IF localStorage = <<>> THEN <<>>
                  ELSE JSONParse(localStorage[1]).value
    IN  /\ s.mounted
        /\ outcome = "ok" => Len(s.bins) < MaxBins
        /\ IF outcome # "ok"
           THEN /\ client' = [client EXCEPT
                                ![c].notification = RejectionNotice(outcome, s.bins),
                                ![c].isSubmitting = FALSE]
                /\ UNCHANGED localStorage
           ELSE LET updatedBins == Append(s.bins, NewBin(s, now))
                IN  /\ client' = [client EXCEPT
                                    ![c].bins = updatedBins,
                                    ![c].notification =
                                       IF writeOk
                                       THEN Notify("success",
                                                   "Bin details submitted successfully!")
                                       ELSE Notify("error",
                                                   "Failed to save bin. Data might be lost on refresh."),
                                    ![c].location = <<>>,
                                    ![c].amount = <<>>,
                                    ![c].latLng = <<>>,
                                    ![c].isSubmitting = FALSE]
                    /\ localStorage' =
                         IF writeOk
                         THEN <<JSONStringify(Append(stored, NewBin(s, now)))>>
                         ELSE localStorage
        /\ event' = [who |-> c, op |-> "handleSubmit"]
        /\ UNCHANGED <<driver, directionsService, geocoder, now>>

\* handleSubmit; writeOk: whether localStorage.setItem returns or throws
HandleSubmit(c, writeOk) ==
    LET s == client[c]
        outcome == SubmitOutcome(s.amount, s.latLng, s.bins)
    IN  /\ s.mounted
        /\ outcome = "ok" => Len(s.bins) < MaxBins
        /\ IF outcome # "ok"
           THEN /\ client' = [client EXCEPT
                                ![c].notification = RejectionNotice(outcome, s.bins),
                                ![c].isSubmitting = FALSE]
                /\ UNCHANGED localStorage
           ELSE LET updatedBins == Append(s.bins, NewBin(s, now))
                IN  /\ client' = [client EXCEPT
                                    ![c].bins = updatedBins,
                                    ![c].notification =
                                       IF writeOk
                                       THEN Notify("success",
                                                   "Bin details submitted successfully!")
                                       ELSE Notify("error",
                                                   "Failed to save bin. Data might be lost on refresh."),
                                    ![c].location = <<>>,
                                    ![c].amount = <<>>,
                                    ![c].latLng = <<>>,
                                    ![c].isSubmitting = FALSE]
                    /\ localStorage' =
                         IF writeOk THEN <<JSONStringify(updatedBins)>>
                         ELSE localStorage
        /\ event' = [who |-> c, op |-> "handleSubmit"]
        /\ UNCHANGED <<driver, directionsService, geocoder, now>>

\* handleClear without localStorage.removeItem
HandleClearKeepsStore(c) ==
    /\ client[c].mounted
    /\ client' = [client EXCEPT
                    ![c].bins = <<>>,
                    ![c].notification =
                       Notify("info", "All submitted bin data has been cleared."),
                    ![c].amount = <<>>,
                    ![c].latLng = <<>>,
                    ![c].location = <<>>]
    /\ event' = [who |-> c, op |-> "handleClear"]
    /\ UNCHANGED <<localStorage, driver, directionsService, geocoder, now>>

HandleClear(c) ==
    /\ client[c].mounted
    /\ localStorage' = <<>>
    /\ client' = [client EXCEPT
                    ![c].bins = <<>>,
                    ![c].notification =
                       Notify("info", "All submitted bin data has been cleared."),
                    ![c].amount = <<>>,
                    ![c].latLng = <<>>,
                    ![c].location = <<>>]
    /\ event' = [who |-> c, op |-> "handleClear"]
    /\ UNCHANGED <<driver, directionsService, geocoder, now>>

\* time passes between two readings of the clock
Tick ==
    /\ now < MaxClock
    /\ now' = now + 1
    /\ event' = [who |-> "clock", op |-> "tick"]
    /\ UNCHANGED <<localStorage, client, driver, directionsService, geocoder>>

-----------------------------------------------------------------------------
(* Directions service: what a callback may be handed *)

Leg(distance, duration) == [distance |-> <<distance>>, duration |-> <<duration>>]

\* the three legs of 5 km / 10 min, 3 km / 6 min and 4 km / 8 min
ThreeLegs == [routes |-> << [legs |-> <<Leg(5000, 600), Leg(3000, 360), Leg(4000, 480)>>] >>]

\* the same three legs as the service may order them otherwise
ThreeLegsReordered ==
    [routes |-> << [legs |-> <<Leg(4000, 480), Leg(5000, 600), Leg(3000, 360)>>] >>]

OneLeg == [routes |-> << [legs |-> <<Leg(1500, 200)>>] >>]

NoLegs == [routes |-> << [legs |-> <<>>] >>]

NoRoutes == [routes |-> <<>>]

DirectionsResults ==
    { <<>>, <<OneLeg>>, <<ThreeLegs>>, <<ThreeLegsReordered>>, <<NoLegs>>, <<NoRoutes>> }

DirectionsStatuses == {"OK", "ZERO_RESULTS", "OVER_QUERY_LIMIT"}

-----------------------------------------------------------------------------
(* Driver portal *)

InitialDriver ==
    [mounted |-> FALSE, bins |-> <<>>, map |-> FALSE, directionsResponse |-> <<>>,
     routePlanned |-> FALSE, isLoadingRoute |-> FALSE, routeSummary |-> <<>>,
     notification |-> NoDriverNotification, crashed |-> FALSE]

NoBinsReported ==
    DriverNotify("info", "No bins reported yet. Waiting for submissions.", "")

\* the load effect, run once when the component mounts (also a page reload, which
\* ends the page's outstanding requests with it)
DriverMount ==
    /\ driver' =
         IF localStorage = <<>>
         THEN [InitialDriver EXCEPT !.mounted = TRUE, !.notification = NoBinsReported]
         ELSE LET parsed == JSONParse(localStorage[1])
              IN  IF parsed.threw
                  THEN [InitialDriver EXCEPT
                          !.mounted = TRUE,
                          !.notification =
                             DriverNotify("error", "Could not load bin data.", "")]
                  ELSE IF ~parsed.array
                  \* setBins(value), and bins.map throws in the next render:
                  \* React takes the page down
                  THEN [InitialDriver EXCEPT !.crashed = TRUE]
                  ELSE [InitialDriver EXCEPT
                          !.mounted = TRUE,
                          !.bins = parsed.value,
                          !.notification =
                             IF Len(parsed.value) = 0 THEN NoBinsReported
                             ELSE NoDriverNotification]
    /\ directionsService' = <<>>
    /\ event' = [who |-> "driver", op |-> "load"]
    /\ UNCHANGED <<localStorage, client, geocoder, now>>

\* the 5 s timer that clears a notification
DriverNotificationTimeout ==
    /\ driver.mounted
    /\ driver.notification # NoDriverNotification
    /\ driver' = [driver EXCEPT !.notification = NoDriverNotification]
    /\ event' = [who |-> "driver", op |-> "notificationTimeout"]
    /\ UNCHANGED <<localStorage, client, directionsService, geocoder, now>>

OnMapLoad ==
    /\ driver.mounted
    /\ ~driver.map
    /\ driver' = [driver EXCEPT !.map = TRUE]
    /\ event' = [who |-> "driver", op |-> "onMapLoad"]
    /\ UNCHANGED <<localStorage, client, directionsService, geocoder, now>>

Coordinate(b) == [lat |-> b.lat, lng |-> b.lng]

\* planRoute taking every bin as a waypoint, the last one included
RouteRequestAllWaypoints(bins) ==
    LET binLocations == [i \in 1..Len(bins) |-> Coordinate(bins[i])]
    IN  [origin |-> DEFAULT_CENTER,
         destination |-> binLocations[Len(binLocations)],
         waypoints |-> [i \in 1..Len(binLocations) |->
                          [location |-> binLocations[i], stopover |-> TRUE]],
         optimizeWaypoints |-> TRUE,
         travelMode |-> "DRIVING"]

\* the request planRoute hands to directionsService.route
RouteRequest(bins) ==
    LET binLocations == [i \in 1..Len(bins) |-> Coordinate(bins[i])]
    IN  [origin |-> DEFAULT_CENTER,
         destination |-> binLocations[Len(binLocations)],
         waypoints |-> [i \in 1..(Len(binLocations) - 1) |->
                          [location |-> binLocations[i], stopover |-> TRUE]],
         optimizeWaypoints |-> TRUE,
         travelMode |-> "DRIVING"]

\* planRoute raising isLoadingRoute before its two guards
PlanRouteLoadsFirst ==
    /\ driver.mounted
    /\ IF ~driver.map
       THEN /\ driver' = [driver EXCEPT
                            !.isLoadingRoute = TRUE,
                            !.notification = DriverNotify("error", "Map not ready.", "")]
            /\ UNCHANGED directionsService
       ELSE IF Len(driver.bins) = 0
       THEN /\ driver' = [driver EXCEPT
                            !.isLoadingRoute = TRUE,
                            !.notification =
                               DriverNotify("info", "No bins to plan route.", "")]
            /\ UNCHANGED directionsService
       ELSE /\ driver' = [driver EXCEPT
                            !.isLoadingRoute = TRUE,
                            !.directionsResponse = <<>>,
                            !.routeSummary = <<>>,
                            !.notification = NoDriverNotification]
            /\ directionsService' = Append(directionsService, RouteRequest(driver.bins))
    /\ event' = [who |-> "driver", op |-> "planRoute"]
    /\ UNCHANGED <<localStorage, client, geocoder, now>>

\* planRoute building its request from what the store holds now
PlanRouteReadsStore ==
    LET current == IF localStorage = <<>> THEN driver.bins
                   ELSE JSONParse(localStorage[1]).value
    IN  /\ driver.mounted
        /\ IF ~driver.map
           THEN /\ driver' = [driver EXCEPT
                                !.notification = DriverNotify("error", "Map not ready.", "")]
                /\ UNCHANGED directionsService
           ELSE IF Len(driver.bins) = 0
           THEN /\ driver' = [driver EXCEPT
                                !.notification =
                                   DriverNotify("info", "No bins to plan route.", "")]
                /\ UNCHANGED directionsService
           ELSE /\ driver' = [driver EXCEPT
                                !.isLoadingRoute = TRUE,
                                !.directionsResponse = <<>>,
                                !.routeSummary = <<>>,
                                !.notification = NoDriverNotification]
                /\ directionsService' = Append(directionsService, RouteRequest(current))
        /\ event' = [who |-> "driver", op |-> "planRoute"]
        /\ UNCHANGED <<localStorage, client, geocoder, now>>

\* planRoute, the handler itself
PlanRoute ==
    /\ driver.mounted
    /\ IF ~driver.map
       THEN /\ driver' = [driver EXCEPT
                            !.notification = DriverNotify("error", "Map not ready.", "")]
            /\ UNCHANGED directionsService
       ELSE IF Len(driver.bins) = 0
       THEN /\ driver' = [driver EXCEPT
                            !.notification =
                               DriverNotify("info", "No bins to plan route.", "")]
            /\ UNCHANGED directionsService
       ELSE /\ driver' = [driver EXCEPT
                            !.isLoadingRoute = TRUE,
                            !.directionsResponse = <<>>,
                            !.routeSummary = <<>>,
                            !.notification = NoDriverNotification]
            /\ directionsService' = Append(directionsService, RouteRequest(driver.bins))
    /\ event' = [who |-> "driver", op |-> "planRoute"]
    /\ UNCHANGED <<localStorage, client, geocoder, now>>

\* the button not disabled while a request is outstanding
PlanButtonDisabledIgnoresLoading ==
    driver.routePlanned \/ Len(driver.bins) = 0

\* the button not disabled once a route is planned
PlanButtonDisabledIgnoresPlanned ==
    driver.isLoadingRoute \/ Len(driver.bins) = 0

\* the disabled attribute of the Plan Route button
PlanButtonDisabled ==
    driver.isLoadingRoute \/ driver.routePlanned \/ Len(driver.bins) = 0

\* a click on the Plan Route button while it is enabled
PlanRouteClick ==
    /\ ~PlanButtonDisabled
    /\ PlanRoute

\* a click on the Plan Route button while it is disabled: no handler runs
PlanRouteClickDisabled ==
    /\ driver.mounted
    /\ PlanButtonDisabled
    /\ event' = [who |-> "driver", op |-> "planRouteClickDisabled"]
    /\ UNCHANGED <<localStorage, client, driver, directionsService, geocoder, now>>

\* planRoute called whatever the button shows
PlanRouteCall ==
    /\ Len(directionsService) < MaxInFlight
    /\ PlanRoute

\* the sum that keeps the last leg only (= where the code has +=)
SumLegsLastOnly(legs, field) ==
    IF Len(legs) = 0 THEN 0
    ELSE IF legs[Len(legs)][field] = <<>> THEN 0 ELSE legs[Len(legs)][field][1]

RECURSIVE SumLegs(_, _)
\* leg.distance?.value || 0, added up over the legs
SumLegs(legs, field) ==
    IF Len(legs) = 0 THEN 0
    ELSE SumLegs(SubSeq(legs, 1, Len(legs) - 1), field)
         + (IF legs[Len(legs)][field] = <<>> THEN 0 ELSE legs[Len(legs)][field][1])

\* (totalDistance / 1000).toFixed(2), in hundredths of a kilometre; the totals
\* met here are whole tens of metres, so no tie at the third decimal arises
DistanceText(totalDistance) == (totalDistance + 5) \div 10

\* Math.round(totalDuration / 60), in minutes
DurationText(totalDuration) == (totalDuration + 30) \div 60

\* the callback lowering isLoadingRoute on success only
RouteCallbackKeepsLoading(i, result, status) ==
    /\ i \in 1..Len(directionsService)
    /\ directionsService' =
         [k \in 1..(Len(directionsService) - 1) |->
            IF k < i THEN directionsService[k] ELSE directionsService[k + 1]]
    /\ IF status = "OK" /\ result # <<>>
       THEN IF Len(result[1].routes) = 0
            THEN driver' = [driver EXCEPT
                              !.isLoadingRoute = FALSE,
                              !.directionsResponse = result,
                              !.routePlanned = TRUE]
            ELSE LET legs == result[1].routes[1].legs
                 IN  driver' = [driver EXCEPT
                                  !.isLoadingRoute = FALSE,
                                  !.directionsResponse = result,
                                  !.routePlanned = TRUE,
                                  !.routeSummary =
                                     << [distance |-> DistanceText(SumLegs(legs, "distance")),
                                         duration |-> DurationText(SumLegs(legs, "duration"))] >>,
                                  !.notification =
                                     DriverNotify("success", "Route planned successfully!", "")]
       ELSE driver' = [driver EXCEPT
                         !.notification =
                            DriverNotify("error", "Route planning failed", status)]
    /\ event' = [who |-> "driver", op |-> "routeCallback"]
    /\ UNCHANGED <<localStorage, client, geocoder, now>>

\* the callback lowering isLoadingRoute after the summary, not before it
RouteCallbackLowersLast(i, result, status) ==
    /\ i \in 1..Len(directionsService)
    /\ directionsService' =
         [k \in 1..(Len(directionsService) - 1) |->
            IF k < i THEN directionsService[k] ELSE directionsService[k + 1]]
    /\ IF status = "OK" /\ result # <<>>
       THEN IF Len(result[1].routes) = 0
            THEN driver' = [driver EXCEPT
                              !.directionsResponse = result,
                              !.routePlanned = TRUE]
            ELSE LET legs == result[1].routes[1].legs
                 IN  driver' = [driver EXCEPT
                                  !.isLoadingRoute = FALSE,
                                  !.directionsResponse = result,
                                  !.routePlanned = TRUE,
                                  !.routeSummary =
                                     << [distance |-> DistanceText(SumLegs(legs, "distance")),
                                         duration |-> DurationText(SumLegs(legs, "duration"))] >>,
                                  !.notification =
                                     DriverNotify("success", "Route planned successfully!", "")]
       ELSE driver' = [driver EXCEPT
                         !.isLoadingRoute = FALSE,
                         !.notification =
                            DriverNotify("error", "Route planning failed", status)]
    /\ event' = [who |-> "driver", op |-> "routeCallback"]
    /\ UNCHANGED <<localStorage, client, geocoder, now>>

\* the callback of directionsService.route for the i-th outstanding request
RouteCallback(i, result, status) ==
    /\ i \in 1..Len(directionsService)
    /\ directionsService' =
         [k \in 1..(Len(directionsService) - 1) |->
            IF k < i THEN directionsService[k] ELSE directionsService[k + 1]]
    /\ IF status = "OK" /\ result # <<>>
       THEN IF Len(result[1].routes) = 0
            \* result.routes[0].legs throws: the three updates before it stand
            THEN driver' = [driver EXCEPT
                              !.isLoadingRoute = FALSE,
                              !.directionsResponse = result,
                              !.routePlanned = TRUE]
            ELSE LET legs == result[1].routes[1].legs
                 IN  driver' = [driver EXCEPT
                                  !.isLoadingRoute = FALSE,
                                  !.directionsResponse = result,
                                  !.routePlanned = TRUE,
                                  !.routeSummary =
                                     << [distance |-> DistanceText(SumLegs(legs, "distance")),
                                         duration |-> DurationText(SumLegs(legs, "duration"))] >>,
                                  !.notification =
                                     DriverNotify("success", "Route planned successfully!", "")]
       ELSE driver' = [driver EXCEPT
                         !.isLoadingRoute = FALSE,
                         !.notification =
                            DriverNotify("error", "Route planning failed", status)]
    /\ event' = [who |-> "driver", op |-> "routeCallback"]
    /\ UNCHANGED <<localStorage, client, geocoder, now>>

\* clearRoute without setRouteSummary(null)
ClearRouteKeepsSummary ==
    /\ driver.mounted
    /\ driver' = [driver EXCEPT
                    !.directionsResponse = <<>>,
                    !.routePlanned = FALSE,
                    !.notification = DriverNotify("info", "Route cleared.", "")]
    /\ event' = [who |-> "driver", op |-> "clearRoute"]
    /\ UNCHANGED <<localStorage, client, directionsService, geocoder, now>>

\* clearRoute without setDirectionsResponse(null)
ClearRouteKeepsRoute ==
    /\ driver.mounted
    /\ driver' = [driver EXCEPT
                    !.routePlanned = FALSE,
                    !.routeSummary = <<>>,
                    !.notification = DriverNotify("info", "Route cleared.", "")]
    /\ event' = [who |-> "driver", op |-> "clearRoute"]
    /\ UNCHANGED <<localStorage, client, directionsService, geocoder, now>>

\* clearRoute, the handler itself
ClearRoute ==
    /\ driver.mounted
    /\ driver' = [driver EXCEPT
                    !.directionsResponse = <<>>,
                    !.routePlanned = FALSE,
                    !.routeSummary = <<>>,
                    !.notification = DriverNotify("info", "Route cleared.", "")]
    /\ event' = [who |-> "driver", op |-> "clearRoute"]
    /\ UNCHANGED <<localStorage, client, directionsService, geocoder, now>>

\* the Clear Route button is rendered only while routePlanned
ClearRouteClick ==
    /\ driver.routePlanned
    /\ ClearRoute

\* clearRoute called whatever the page renders
ClearRouteCall ==
    /\ ClearRoute

-----------------------------------------------------------------------------
(* Specifications *)

Init ==
    /\ localStorage = <<>>
    /\ client = [c \in Clients |-> InitialClient]
    /\ driver = InitialDriver
    /\ directionsService = <<>>
    /\ geocoder = {}
    /\ now = 0
    /\ event = [who |-> "none", op |-> "init"]

\* a record as handleSubmit builds it
SeedBin(t, pin, amount) ==
    [id |-> ToISOString(t), location |-> FormattedAddress(pin), amount |-> amount,
     lat |-> pin.lat, lng |-> pin.lng, createdAt |-> ToISOString(t)]

\* bin lists a client has written, for the driver to start from
SeedLists ==
    { <<SeedBin(0, PinA, 100)>>,
      <<SeedBin(0, PinB, 15)>>,
      <<SeedBin(0, PinB, 60), SeedBin(0, PinB, 40)>>,
      <<SeedBin(0, PinA, 40), SeedBin(1, PinB, 60)>>,
      <<SeedBin(0, PinA, 40), SeedBin(1, PinB, 40), SeedBin(2, PinA, 15)>>,
      <<SeedBin(0, PinB, 10), SeedBin(1, PinB, 10), SeedBin(2, PinA, 10)>> }

SeedStores == { <<>> } \cup { <<JSONStringify(l)>> : l \in SeedLists }

InitDriver ==
    /\ localStorage \in SeedStores
    /\ client = [c \in Clients |-> InitialClient]
    /\ driver = InitialDriver
    /\ directionsService = <<>>
    /\ geocoder = {}
    /\ now = 0
    /\ event = [who |-> "none", op |-> "init"]

\* values under the key that no run of the two portals wrote
CorruptStores == { <<InvalidJSON>>, <<ObjectJSON>> }

InitLoad ==
    /\ localStorage \in SeedStores \cup CorruptStores
    /\ client = [c \in Clients |-> InitialClient]
    /\ driver = InitialDriver
    /\ directionsService = <<>>
    /\ geocoder = {}
    /\ now = 0
    /\ event = [who |-> "none", op |-> "init"]

\* the two portals loading, and the client clearing, whatever the store holds
NextLoad ==
    \/ ClientMount("c1")
    \/ ClientNotificationTimeout("c1")
    \/ HandleClear("c1")
    \/ DriverMount
    \/ DriverNotificationTimeout
    \/ OnMapLoad

\* one client portal, every amount text, one pin
NextClient ==
    \/ ClientMount("c1")
    \/ ClientNotificationTimeout("c1")
    \/ \E text \in AmountTexts : SetAmount("c1", text)
    \/ HandleMapClick("c1", PinA)
    \/ \E writeOk \in BOOLEAN : HandleSubmit("c1", writeOk)
    \/ HandleClear("c1")

\* one client portal, both pins, and the clock
NextForm ==
    \/ ClientMount("c1")
    \/ \E text \in FormAmountTexts : SetAmount("c1", text)
    \/ \E pin \in Pins : HandleMapClick("c1", pin)
    \/ \E writeOk \in BOOLEAN : HandleSubmit("c1", writeOk)
    \/ HandleClear("c1")
    \/ Tick

\* how a reverse-geocoding request may end
GeocodeOutcomes == {"found", "empty", "error"}

\* one client portal, both pins, and the geocoder answering when it will
NextGeocode ==
    \/ ClientMount("c1")
    \/ \E text \in SmallAmountTexts : SetAmount("c1", text)
    \/ \E pin \in Pins : HandleMapClick("c1", pin)
    \/ \E req \in geocoder, outcome \in GeocodeOutcomes : GeocodeSettles(req, outcome)
    \/ HandleSubmit("c1", TRUE)
    \/ HandleClear("c1")

\* two client portals, in two tabs on the same store
NextTabs ==
    \E c \in Clients :
       \/ ClientMount(c)
       \/ \E text \in SmallAmountTexts : SetAmount(c, text)
       \/ HandleMapClick(c, PinA)
       \/ \E writeOk \in BOOLEAN : HandleSubmit(c, writeOk)
       \/ HandleClear(c)

\* the driver portal as its buttons drive it
NextDriver ==
    \/ DriverMount
    \/ DriverNotificationTimeout
    \/ OnMapLoad
    \/ PlanRouteClick
    \/ PlanRouteClickDisabled
    \/ \E i \in 1..Len(directionsService), result \in DirectionsResults,
          status \in DirectionsStatuses : RouteCallback(i, result, status)
    \/ ClearRouteClick

\* the driver portal with planRoute called directly
NextHandler ==
    \/ DriverMount
    \/ DriverNotificationTimeout
    \/ OnMapLoad
    \/ PlanRouteCall
    \/ \E i \in 1..Len(directionsService), result \in DirectionsResults,
          status \in DirectionsStatuses : RouteCallback(i, result, status)
    \/ ClearRouteClick

\* one client portal and the driver portal, in two tabs on the same store
Next ==
    \/ ClientMount("c1")
    \/ \E text \in SmallAmountTexts : SetAmount("c1", text)
    \/ HandleMapClick("c1", PinA)
    \/ \E writeOk \in BOOLEAN : HandleSubmit("c1", writeOk)
    \/ HandleClear("c1")
    \/ DriverMount
    \/ OnMapLoad
    \/ PlanRouteClick
    \/ PlanRouteClickDisabled
    \/ \E i \in 1..Len(directionsService), result \in {<<>>, <<OneLeg>>},
          status \in {"OK", "ZERO_RESULTS"} : RouteCallback(i, result, status)
    \/ ClearRouteClick

\* the driver portal with planRoute and clearRoute called directly
NextCalls ==
    \/ DriverMount
    \/ DriverNotificationTimeout
    \/ OnMapLoad
    \/ PlanRouteCall
    \/ \E i \in 1..Len(directionsService), result \in DirectionsResults,
          status \in DirectionsStatuses : RouteCallback(i, result, status)
    \/ ClearRouteCall

Spec == Init /\ [][Next]_vars

SpecClient == Init /\ [][NextClient]_vars

SpecDriver == InitDriver /\ [][NextDriver]_vars

SpecHandler == InitDriver /\ [][NextHandler]_vars

SpecCalls == InitDriver /\ [][NextCalls]_vars

SpecLoad == InitLoad /\ [][NextLoad]_vars

SpecForm == Init /\ [][NextForm]_vars

SpecGeocode == Init /\ [][NextGeocode]_vars

SpecTabs == Init /\ [][NextTabs]_vars

\* the routing service calls back for an outstanding request
RouteAnswered ==
    \E i \in 1..Len(directionsService), result \in DirectionsResults,
       status \in DirectionsStatuses : RouteCallback(i, result, status)

\* the driver portal as its buttons drive it, with a routing service that
\* answers every request it still holds
SpecAnswered == InitDriver /\ [][NextDriver]_vars /\ WF_vars(RouteAnswered)

-----------------------------------------------------------------------------
(* Properties *)

\* the list a load of the store hands to setBins
StoredBins(store) ==
    IF store = <<>> THEN <<>> ELSE JSONParse(store[1]).value

Submitted(c) == event' = [who |-> c, op |-> "handleSubmit"]

Cleared(c) == event' = [who |-> c, op |-> "handleClear"]

ExceedsNotice(left) ==
    NotifyWith("error", "Amount exceeds remaining truck capacity", left)

\* C1: the amounts of a client's bin list never add up to more than the truck
\* capacity, whatever was submitted, cleared and loaded
C1_WithinCapacity ==
    \A c \in Clients : TotalAmount(client[c].bins) <= MAX_TRUCK_CAPACITY

\* the truck is full and a further submission has just been turned down
C1_Witness ==
    /\ event = [who |-> "c1", op |-> "handleSubmit"]
    /\ TotalAmount(client["c1"].bins) = MAX_TRUCK_CAPACITY
    /\ Len(client["c1"].bins) = 2
    /\ client["c1"].notification = ExceedsNotice(0)

\* a submission the claim calls rejected, told from the form and the list alone
C2_Rejected(s) ==
    \/ s.amount = <<>>
    \/ s.latLng = <<>>
    \/ ParseFloat(s.amount).nan
    \/ ParseFloat(s.amount).val <= 0
    \/ ParseFloat(s.amount).val > MAX_TRUCK_CAPACITY - TotalAmount(s.bins)

\* C2: a rejected submission changes neither the bin list nor the store (nor any
\* other field of the form): it only leaves an error notification
C2_RejectionChangesNothing ==
    [][\A c \in Clients :
         (Submitted(c) /\ C2_Rejected(client[c])) =>
            /\ client'[c].bins = client[c].bins
            /\ localStorage' = localStorage
            /\ client'[c].notification.type = "error"
            /\ client'[c] = [client[c] EXCEPT !.notification = client'[c].notification]
      ]_vars

\* a non-positive amount has just been turned down with bins in the list and the store
C2_Witness ==
    /\ event = [who |-> "c1", op |-> "handleSubmit"]
    /\ client["c1"].notification =
          Notify("error", "Please enter a valid positive waste amount.")
    /\ client["c1"].amount = <<"-", "5">>
    /\ Len(client["c1"].bins) = 2
    /\ localStorage # <<>>

\* the two notices a submission without a positive number gets: the one for an
\* empty amount field, the one for a number that is not positive
C3_NotPositiveNotices ==
    { Notify("error", "Please pin a location and enter the waste amount."),
      Notify("error", "Please enter a valid positive waste amount.") }

C3_AcceptedNotices ==
    { Notify("success", "Bin details submitted successfully!"),
      Notify("error", "Failed to save bin. Data might be lost on refresh.") }

\* C3: a pinned submission is turned down as not positive when its amount is no
\* number or is <= 0, else turned down for capacity when it is more than
\* capacity - committed, else accepted with committed raised by the amount
C3_AdmissionDecision ==
    [][\A c \in Clients :
         (Submitted(c) /\ client[c].latLng # <<>>) =>
            LET amount     == ParseFloat(client[c].amount)
                committed  == TotalAmount(client[c].bins)
                committed2 == TotalAmount(client'[c].bins)
                notice     == client'[c].notification
            IN  IF amount.nan \/ amount.val <= 0
                THEN notice \in C3_NotPositiveNotices /\ committed2 = committed
                ELSE IF amount.val > MAX_TRUCK_CAPACITY - committed
                THEN /\ notice = ExceedsNotice(MAX_TRUCK_CAPACITY - committed)
                     /\ committed2 = committed
                ELSE /\ notice \in C3_AcceptedNotices
                     /\ committed2 = committed + amount.val
      ]_vars

\* 40, 40 and 15 are in (committed 95) and a 10 has just been turned down with 5 left
C3_Witness ==
    /\ event = [who |-> "c1", op |-> "handleSubmit"]
    /\ [i \in 1..Len(client["c1"].bins) |-> client["c1"].bins[i].amount] = <<40, 40, 15>>
    /\ TotalAmount(client["c1"].bins) = 95
    /\ client["c1"].amount = <<"1", "0">>
    /\ client["c1"].notification = ExceedsNotice(5)

\* C4: a clear leaves the bin list empty, committed 0 and nothing in the store, so
\* that a load yields no bin; the state it leaves does not depend on the state it
\* started from, so a second clear changes nothing
C4_ClearEmpties ==
    [][\A c \in Clients :
         Cleared(c) =>
            /\ client'[c].bins = <<>>
            /\ TotalAmount(client'[c].bins) = 0
            /\ localStorage' = <<>>
            /\ StoredBins(localStorage') = <<>>
            /\ client'[c] =
                 [InitialClient EXCEPT
                    !.mounted = TRUE,
                    !.notification =
                       Notify("info", "All submitted bin data has been cleared.")]
      ]_vars

\* a clear has just run and a pending geocoding request shows the map was used before
C4_Witness ==
    /\ event = [who |-> "c1", op |-> "handleClear"]
    /\ client["c1"].bins = <<>>
    /\ localStorage = <<>>
    /\ geocoder # {}

\* a submission that added a record to the list
Accepted(c) == Submitted(c) /\ Len(client'[c].bins) = Len(client[c].bins) + 1

Loaded(who) == event' = [who |-> who, op |-> "load"]

\* C5, as claimed: after every accepted submission a load of the store yields the
\* client's records, in order
C5_Original ==
    [][\A c \in Clients :
         Accepted(c) => StoredBins(localStorage') = client'[c].bins
      ]_vars

\* C5, amended: after an accepted submission whose write to the store succeeded, a
\* load of the store yields the client's records in order, the records it had
\* followed by the new one; and a load by either front end takes over that list
C5_RoundTrip ==
    [][/\ \A c \in Clients :
            ( /\ Accepted(c)
              /\ client'[c].notification =
                    Notify("success", "Bin details submitted successfully!") ) =>
               LET stored == StoredBins(localStorage')
               IN  /\ stored = client'[c].bins
                   /\ Len(stored) = Len(client[c].bins) + 1
                   /\ SubSeq(stored, 1, Len(stored) - 1) = client[c].bins
                   /\ stored[Len(stored)].amount = ParseFloat(client[c].amount).val
                   /\ Coordinate(stored[Len(stored)]) = client[c].latLng[1]
       /\ \A c \in Clients : Loaded(c) => client'[c].bins = StoredBins(localStorage)
       /\ Loaded("driver") => driver'.bins = StoredBins(localStorage)
      ]_vars

\* the driver has just loaded the two different records the client holds
C5_Witness ==
    /\ event = [who |-> "driver", op |-> "load"]
    /\ Len(driver.bins) = 2
    /\ driver.bins = client["c1"].bins
    /\ driver.bins[1].amount # driver.bins[2].amount
    /\ StoredBins(localStorage) = driver.bins

\* C6, as claimed: an accepted add or a clear made while the plan is Planned puts
\* the plan back to Unplanned
C6_MutationInvalidatesPlan ==
    [][(driver.routePlanned /\ \E c \in Clients : Accepted(c) \/ Cleared(c))
          => ~driver'.routePlanned
      ]_vars

\* C7: at most one routing request is outstanding
C7_OneInFlight == Len(directionsService) <= 1

\* the Plan Route button has just been clicked again while the request is outstanding
C7_Witness ==
    /\ event = [who |-> "driver", op |-> "planRouteClickDisabled"]
    /\ driver.isLoadingRoute
    /\ Len(directionsService) = 1

\* a click on the Plan Route button, whether or not a handler ran
PlanClicked ==
    /\ event'.who = "driver"
    /\ event'.op \in {"planRoute", "planRouteClickDisabled"}

\* C8, as claimed: a plan request made while Planned or Planning sends nothing,
\* leaves route and summary as they are, and is reported
C8_Original ==
    [][(PlanClicked /\ (driver.routePlanned \/ driver.isLoadingRoute)) =>
          /\ directionsService' = directionsService
          /\ driver'.directionsResponse = driver.directionsResponse
          /\ driver'.routeSummary = driver.routeSummary
          /\ driver'.notification # NoDriverNotification
      ]_vars

\* C8, amended: a plan request made while Planned or Planning sends nothing and
\* changes nothing of the driver's state, its notification included
C8_DisabledClickChangesNothing ==
    [][(PlanClicked /\ (driver.routePlanned \/ driver.isLoadingRoute)) =>
          /\ directionsService' = directionsService
          /\ driver' = driver
      ]_vars

\* the button has just been clicked with a route and its summary on display
C8_Witness ==
    /\ event = [who |-> "driver", op |-> "planRouteClickDisabled"]
    /\ driver.routePlanned
    /\ driver.routeSummary # <<>>
    /\ driver.notification = NoDriverNotification

PlanCalled == event' = [who |-> "driver", op |-> "planRoute"]

C10_FailureReverts ==
    [][/\ \A i \in 1..Len(directionsService), result \in DirectionsResults,
             status \in DirectionsStatuses \ {"OK"} :
            RouteCallback(i, result, status) =>
               /\ driver.isLoadingRoute
               /\ ~driver'.isLoadingRoute
               /\ ~driver'.routePlanned
               /\ driver'.directionsResponse = <<>>
               /\ driver'.routeSummary = <<>>
               /\ driver'.notification =
                     DriverNotify("error", "Route planning failed", status)
               /\ directionsService' = <<>>
       /\ Len(directionsService') > Len(directionsService) => PlanCalled
      ]_vars

\* the service has just answered ZERO_RESULTS
C10_Witness ==
    /\ event = [who |-> "driver", op |-> "routeCallback"]
    /\ driver.notification = DriverNotify("error", "Route planning failed", "ZERO_RESULTS")
    /\ ~driver.isLoadingRoute
    /\ ~driver.routePlanned
    /\ directionsService = <<>>

\* C11, as claimed: an OK answer that carries no route, or a route without legs, is
\* a failure: the plan goes back to Unplanned, no summary is set, an error is reported
C11_EmptyAnswerFails ==
    [][\A i \in 1..Len(directionsService), result \in { <<NoLegs>>, <<NoRoutes>> } :
          RouteCallback(i, result, "OK") =>
             /\ ~driver'.isLoadingRoute
             /\ ~driver'.routePlanned
             /\ driver'.routeSummary = <<>>
             /\ driver'.notification.type = "error"
      ]_vars

\* C12: every outstanding request goes from the depot to the last bin of the
\* driver's list through its other bins, one stopover each and in list order,
\* with waypoint optimisation on and by road
C12_RequestShape ==
    \A k \in 1..Len(directionsService) :
        LET request == directionsService[k]
            n       == Len(driver.bins)
        IN  /\ n >= 1
            /\ request.origin = DEFAULT_CENTER
            /\ request.destination = [lat |-> driver.bins[n].lat, lng |-> driver.bins[n].lng]
            /\ Len(request.waypoints) = n - 1
            /\ \A i \in 1..(n - 1) :
                  request.waypoints[i] =
                     [location |-> [lat |-> driver.bins[i].lat, lng |-> driver.bins[i].lng],
                      stopover |-> TRUE]
            /\ request.optimizeWaypoints = TRUE
            /\ request.travelMode = "DRIVING"

\* a request for three bins is outstanding, two of its waypoints at the same coordinate
C12_Witness ==
    /\ Len(directionsService) = 1
    /\ Len(driver.bins) = 3
    /\ Len(directionsService[1].waypoints) = 2
    /\ directionsService[1].waypoints[1] = directionsService[1].waypoints[2]
    /\ directionsService[1].destination = PinA

\* the legs' values of one kind, added from the first leg on
RECURSIVE C13_Total(_, _)
C13_Total(legs, field) ==
    IF Len(legs) = 0 THEN 0
    ELSE legs[1][field][1] + C13_Total(Tail(legs), field)

\* C13: an OK answer with legs sets the summary to the legs' total distance in
\* kilometres to 2 decimals (kept in hundredths) and their total duration in
\* minutes, rounded; 5 km/10 min, 3 km/6 min and 4 km/8 min give 12.00 km and
\* 24 min in whichever order the legs come
C13_SummaryIsSum ==
    [][\A i \in 1..Len(directionsService),
          result \in { <<OneLeg>>, <<ThreeLegs>>, <<ThreeLegsReordered>> } :
          RouteCallback(i, result, "OK") =>
             LET legs   == result[1].routes[1].legs
                 metres == C13_Total(legs, "distance")
                 secs   == C13_Total(legs, "duration")
             IN  /\ driver'.routeSummary # <<>>
                 /\ 10 * driver'.routeSummary[1].distance - 5 <= metres
                 /\ metres < 10 * driver'.routeSummary[1].distance + 5
                 /\ 60 * driver'.routeSummary[1].duration - 30 <= secs
                 /\ secs < 60 * driver'.routeSummary[1].duration + 30
                 /\ (result \in { <<ThreeLegs>>, <<ThreeLegsReordered>> } =>
                        driver'.routeSummary[1] = [distance |-> 1200, duration |-> 24])
      ]_vars

\* the three legs came back reordered and the summary reads 12.00 km and 24 min
C13_Witness ==
    /\ event = [who |-> "driver", op |-> "routeCallback"]
    /\ driver.directionsResponse = <<ThreeLegsReordered>>
    /\ driver.routeSummary = << [distance |-> 1200, duration |-> 24] >>

ClearCalled == event' = [who |-> "driver", op |-> "clearRoute"]

\* C14: clearing the route drops the route and the summary and leaves the plan
\* Unplanned with the Plan Route button enabled again; the driver's bin list and
\* the store are as before
C14_ClearPlanKeepsBins ==
    [][ClearCalled =>
          /\ driver'.directionsResponse = <<>>
          /\ driver'.routeSummary = <<>>
          /\ ~driver'.routePlanned
          /\ ~driver'.isLoadingRoute
          /\ ~PlanButtonDisabled'
          /\ driver'.bins = driver.bins
          /\ localStorage' = localStorage
      ]_vars

\* the route of three bins has just been cleared, the three bins still in the list
\* and in the store
C14_Witness ==
    /\ event = [who |-> "driver", op |-> "clearRoute"]
    /\ Len(driver.bins) = 3
    /\ StoredBins(localStorage) = driver.bins
    /\ driver.directionsResponse = <<>>
    /\ driver.routeSummary = <<>>

C16_LoadNeverFails ==
    [][\A who \in {"c1", "driver"} :
          Loaded(who) =>
             LET page == IF who = "driver" THEN driver' ELSE client'[who]
             IN  /\ localStorage' = localStorage
                 /\ ~page.crashed
                 /\ page.mounted
                 /\ (localStorage = <<>> => page.bins = <<>>)
                 /\ (localStorage # <<>> /\ localStorage[1].kind # "array" =>
                        page.bins = <<>> /\ page.notification.type = "error")
      ]_vars

\* the warning handleSubmit leaves when the write to the store threw
C17_FailedToSave ==
    Notify("error", "Failed to save bin. Data might be lost on refresh.")

\* C17: when the write of an admitted submission fails, the record is appended
\* to the bin list all the same and counts toward the committed amount, the
\* store keeps what it held, the failure is reported, and the page stays up and
\* ready for the next operation
C17_FailedWriteKeepsRecord ==
    [][\A c \in Clients :
         (HandleSubmit(c, FALSE) /\ ~C2_Rejected(client[c])) =>
            /\ Len(client'[c].bins) = Len(client[c].bins) + 1
            /\ SubSeq(client'[c].bins, 1, Len(client[c].bins)) = client[c].bins
            /\ client'[c].bins[Len(client'[c].bins)].amount =
                  ParseFloat(client[c].amount).val
            /\ TotalAmount(client'[c].bins) =
                  TotalAmount(client[c].bins) + ParseFloat(client[c].amount).val
            /\ localStorage' = localStorage
            /\ client'[c].notification = C17_FailedToSave
            /\ client'[c].mounted
            /\ ~client'[c].isSubmitting
            /\ ~client'[c].crashed
      ]_vars

\* a write has just failed after an earlier one succeeded: the list holds two
\* records, the store one
C17_Witness ==
    /\ event = [who |-> "c1", op |-> "handleSubmit"]
    /\ client["c1"].notification = C17_FailedToSave
    /\ Len(client["c1"].bins) = 2
    /\ localStorage # <<>>
    /\ Len(StoredBins(localStorage)) = 1

\* no two records of a bin list have the same id
C18_Distinct(bins) ==
    \A i, j \in 1..Len(bins) : bins[i].id = bins[j].id => i = j

\* C18, as claimed: in every bin list and in the store, ids are pairwise distinct
C18_IdsUnique ==
    /\ \A c \in Clients : C18_Distinct(client[c].bins)
    /\ C18_Distinct(StoredBins(localStorage))

\* C19: the record an accepted submission appends has a positive amount and the
\* coordinate pinned when it was submitted, and the submission clears the pin;
\* a submission without a pin appends nothing and asks for one; every record
\* of every list has a positive amount
C19_RecordsArePinned ==
    [][\A c \in Clients :
         /\ Accepted(c) =>
              /\ client[c].latLng # <<>>
              /\ LET b == client'[c].bins[Len(client'[c].bins)]
                 IN  /\ b.amount > 0
                     /\ b.amount = ParseFloat(client[c].amount).val
                     /\ b.lat = client[c].latLng[1].lat
                     /\ b.lng = client[c].latLng[1].lng
              /\ client'[c].latLng = <<>>
         /\ (Submitted(c) /\ client[c].latLng = <<>>) =>
              /\ client'[c].bins = client[c].bins
              /\ localStorage' = localStorage
              /\ client'[c].notification =
                    Notify("error", "Please pin a location and enter the waste amount.")
         /\ \A i \in 1..Len(client'[c].bins) : client'[c].bins[i].amount > 0
      ]_vars

\* a record pinned at the second pin is in the list, and a second submission,
\* with an amount typed again but no new map click, has just been turned down
C19_Witness ==
    /\ event = [who |-> "c1", op |-> "handleSubmit"]
    /\ Len(client["c1"].bins) = 1
    /\ client["c1"].bins[1].lat = PinB.lat
    /\ client["c1"].bins[1].lng = PinB.lng
    /\ client["c1"].amount # <<>>
    /\ client["c1"].latLng = <<>>
    /\ client["c1"].notification =
          Notify("error", "Please pin a location and enter the waste amount.")

\* C20: with the portal driven by its buttons, isLoadingRoute and routePlanned
\* are never both true, and a route and a summary are present only in a plan
\* that is made and not being made
C20_PlanStateConsistent ==
    /\ ~(driver.isLoadingRoute /\ driver.routePlanned)
    /\ driver.directionsResponse # <<>> =>
          driver.routePlanned /\ ~driver.isLoadingRoute
    /\ driver.routeSummary # <<>> =>
          driver.routePlanned /\ ~driver.isLoadingRoute

\* a routing answer has just made the plan: route and summary are present
C20_Witness ==
    /\ event = [who |-> "driver", op |-> "routeCallback"]
    /\ driver.routePlanned
    /\ ~driver.isLoadingRoute
    /\ driver.directionsResponse # <<>>
    /\ driver.routeSummary # <<>>
    /\ driver.notification.type = "success"

\* C21, as claimed: the location of every registered bin is the address of the
\* bin's own coordinate or the placeholder made of that coordinate
C21_LocationIsOwn ==
    \A c \in Clients :
       \A i \in 1..Len(client[c].bins) :
          LET b == client[c].bins[i]
              p == [lat |-> b.lat, lng |-> b.lng]
          IN  b.location \in {FormattedAddress(p), PinnedPlaceholder(p)}

\* C22: the driver's bin list changes only when the driver loads, and a load
\* takes over what the store holds; a submission or a clear by the client leaves
\* the driver portal as it is; and a route request is built from the driver's
\* own list, whatever the store holds by then
C22_DriverSeesLoadsOnly ==
    [][/\ driver'.bins # driver.bins => Loaded("driver")
       /\ Loaded("driver") => driver'.bins = StoredBins(localStorage)
       /\ \A c \in Clients : (Submitted(c) \/ Cleared(c)) => driver' = driver
       /\ (PlanCalled /\ directionsService' # directionsService) =>
             directionsService' =
                Append(directionsService, RouteRequest(driver.bins))
      ]_vars

\* the driver loaded one bin, the client added a second, and the request just
\* sent is for the one bin the driver knows
C22_Witness ==
    /\ event = [who |-> "driver", op |-> "planRoute"]
    /\ Len(driver.bins) = 1
    /\ Len(StoredBins(localStorage)) = 2
    /\ Len(directionsService) = 1
    /\ directionsService[1] = RouteRequest(driver.bins)

\* an accepted submission whose write to the store succeeded
C23_Wrote(c) == Accepted(c) /\ client'[c].notification.type = "success"

C24_PlanningEnds == driver.isLoadingRoute ~> ~driver.isLoadingRoute

\* the answer to the only request has ended the planning of a route over two bins
C24_Witness ==
    /\ event = [who |-> "driver", op |-> "routeCallback"]
    /\ ~driver.isLoadingRoute
    /\ directionsService = <<>>
    /\ Len(driver.bins) = 2

\* C25: with two client portals racing on the store, the amounts of the bins in
\* the store never add up to more than the truck's capacity
C25_StoreWithinCapacity ==
    TotalAmount(StoredBins(localStorage)) <= MAX_TRUCK_CAPACITY

\* the first portal wrote 60 kg, the second, loaded before that, then wrote its
\* own 80 kg: 140 kg are registered in the two lists, 80 kg are in the store
C25_Witness ==
    /\ event = [who |-> "c2", op |-> "handleSubmit"]
    /\ client["c1"].notification.type = "success"
    /\ client["c2"].notification.type = "success"
    /\ TotalAmount(client["c1"].bins) = 60
    /\ TotalAmount(client["c2"].bins) = 80
    /\ TotalAmount(StoredBins(localStorage)) = 80

\* C26: an add whose write succeeds leaves in the store the client's whole list,
\* the records of earlier failed writes included; so do a clear and a reload;
\* and the list of a loaded portal comes to differ from the store only by an
\* accepted add whose write failed
C26_SuccessfulWriteCatchesUp ==
    [][\A c \in Clients :
         /\ (Accepted(c) /\ client'[c].notification.type = "success") =>
               /\ StoredBins(localStorage') = client'[c].bins
               /\ Len(StoredBins(localStorage')) = Len(client[c].bins) + 1
         /\ (Cleared(c) \/ Loaded(c)) =>
               StoredBins(localStorage') = client'[c].bins
         /\ ( /\ client[c].mounted
              /\ StoredBins(localStorage) = client[c].bins
              /\ StoredBins(localStorage') # client'[c].bins ) =>
               /\ Accepted(c)
               /\ client'[c].notification = C17_FailedToSave
               /\ localStorage' = localStorage
      ]_vars

\* a successful add has just left a list of three records in the store, whole
C26_Witness ==
    /\ event = [who |-> "c1", op |-> "handleSubmit"]
    /\ client["c1"].notification.type = "success"
    /\ Len(client["c1"].bins) = 3
    /\ StoredBins(localStorage) = client["c1"].bins

====
